---- MODULE Spec2Model ----
(***************************************************************************)
(* Model of src/main.py: the content/catalog API (pages, products, menu,  *)
(* leads, diagnostic probe) with an optional document store behind it.     *)
(*                                                                         *)
(* Python values are modelled as follows: a dict is a function with a      *)
(* string domain (a record), a list is a sequence, None is the string      *)
(* NoneVal, and a list element that is not a dict is a record with the     *)
(* single field "raw".  A handler is an operator that yields the HTTP      *)
(* response together with the sequence of storage calls it issued; the     *)
(* action of the same request applies it to the state.                     *)
(***************************************************************************)
EXTENDS Integers, Sequences, FiniteSets, TLC

VARIABLES
    dbModule,   \* what `from database import db` yields in this process
    pages,      \* the stored "page" collection, in natural order
    products,   \* the stored "product" collection, in natural order
    leads,      \* the stored "lead" collection, in insertion order
    last,       \* the request handled last and its response
    obs         \* responses seen for one (operation, slug) without a match

(***************************************************************************)
(* Bounds of the model.                                                    *)
(***************************************************************************)
MaxPages == 1
MaxProducts == 1
MaxLeads == 1
MaxCollections == 11
MaxErrLen == 81

(***************************************************************************)
(* Program constants.                                                      *)
(***************************************************************************)
CollectionLimit == 10
ErrTextLimit == 80

NoneVal == "<None>"
EmptyDict == [k \in {} |-> 0]

RECURSIVE Repeat(_, _)
Repeat(s, n) == IF n = 0 THEN "" ELSE s \o Repeat(s, n - 1)

Min(a, b) == IF a < b THEN a ELSE b

(***************************************************************************)
(* Pydantic models (constructor followed by model_dump).                   *)
(***************************************************************************)
IsDict(s) == "raw" \notin DOMAIN s

\* Section(**s) raises a validation error when the required field is absent.
SectionValid(s) == "type" \in DOMAIN s

Section(s) ==
    [type       |-> s.type,
     data       |-> IF "data" \in DOMAIN s THEN s.data ELSE EmptyDict,
     position   |-> IF "position" \in DOMAIN s THEN s.position ELSE 0,
     is_visible |-> IF "is_visible" \in DOMAIN s THEN s.is_visible ELSE TRUE]

Page(p) ==
    [title    |-> p.title,
     slug     |-> p.slug,
     status   |-> IF "status" \in DOMAIN p THEN p.status ELSE "published",
     locale   |-> IF "locale" \in DOMAIN p THEN p.locale ELSE "en",
     sections |-> IF "sections" \in DOMAIN p THEN p.sections ELSE <<>>]

\* Product without the default of currency.
Product_NoCurrencyDefault(p) ==
    [name         |-> p.name,
     slug         |-> p.slug,
     sku          |-> IF "sku" \in DOMAIN p THEN p.sku ELSE NoneVal,
     short_desc   |-> IF "short_desc" \in DOMAIN p THEN p.short_desc ELSE NoneVal,
     price        |-> IF "price" \in DOMAIN p THEN p.price ELSE -1,
     currency     |-> IF "currency" \in DOMAIN p THEN p.currency ELSE NoneVal,
     specs        |-> IF "specs" \in DOMAIN p THEN p.specs ELSE EmptyDict,
     category     |-> IF "category" \in DOMAIN p THEN p.category ELSE NoneVal,
     model_3d_url |-> IF "model_3d_url" \in DOMAIN p THEN p.model_3d_url ELSE NoneVal,
     images       |-> IF "images" \in DOMAIN p THEN p.images ELSE <<>>]

Product(p) ==
    [name         |-> p.name,
     slug         |-> p.slug,
     sku          |-> IF "sku" \in DOMAIN p THEN p.sku ELSE NoneVal,
     short_desc   |-> IF "short_desc" \in DOMAIN p THEN p.short_desc ELSE NoneVal,
     price        |-> IF "price" \in DOMAIN p THEN p.price ELSE -1,
     currency     |-> IF "currency" \in DOMAIN p THEN p.currency ELSE "USD",
     specs        |-> IF "specs" \in DOMAIN p THEN p.specs ELSE EmptyDict,
     category     |-> IF "category" \in DOMAIN p THEN p.category ELSE NoneVal,
     model_3d_url |-> IF "model_3d_url" \in DOMAIN p THEN p.model_3d_url ELSE NoneVal,
     images       |-> IF "images" \in DOMAIN p THEN p.images ELSE <<>>]

LeadValid(l) == {"name", "email"} \subseteq DOMAIN l

Lead(l) ==
    [name         |-> l.name,
     email        |-> l.email,
     phone        |-> IF "phone" \in DOMAIN l THEN l.phone ELSE NoneVal,
     company      |-> IF "company" \in DOMAIN l THEN l.company ELSE NoneVal,
     message      |-> IF "message" \in DOMAIN l THEN l.message ELSE NoneVal,
     product_slug |-> IF "product_slug" \in DOMAIN l THEN l.product_slug ELSE NoneVal,
     source       |-> IF "source" \in DOMAIN l THEN l.source ELSE "website"]

(***************************************************************************)
(* HTTP responses.                                                         *)
(***************************************************************************)
Ok(body) == [status |-> 200, body |-> body]
HTTPException(code, detail) == [status |-> code, body |-> [detail |-> detail]]

\* What a handler did: its response, the storage calls it issued in order,
\* the storage situation it met, and the lead documents it inserted.
Result(resp, calls, class, writes) ==
    [resp |-> resp, calls |-> calls, class |-> class, writes |-> writes]

(***************************************************************************)
(* Utilities.                                                              *)
(***************************************************************************)
DbModules == {"missing", "broken", "none", "client"}

_db_available == dbModule = "client"

\* find_one({"slug": slug}): the first document of the collection whose slug
\* matches, as a sequence of length 0 or 1.
find_one(coll, slug) ==
    LET m == SelectSeq(coll, LAMBDA d : d.slug = slug)
    IN  IF m = <<>> THEN <<>> ELSE <<Head(m)>>

\* The projection {"_id": 0}.
ProjectId(d) == [k \in DOMAIN d \ {"_id"} |-> d[k]]

(***************************************************************************)
(* Root, health and schema.                                                *)
(***************************************************************************)
CROSS == "[x] "
CHECK == "[ok] "
WARN == "[!]  "

read_root ==
    Result(Ok([message |-> "Futuristic Corp MVP API running"]), <<>>, "none", <<>>)

\* test_database setting connection_status before the listing is tried.
test_database_EarlyConnected(names, fault, listingFails, env) ==
    LET response ==
            [backend           |-> CHECK \o "Running",
             database          |-> CROSS \o "Not Available",
             database_url      |-> NoneVal,
             database_name     |-> NoneVal,
             connection_status |-> "Not Connected",
             collections       |-> <<>>]
        cut == SubSeq(fault, 1, Min(Len(fault), ErrTextLimit))
        probed ==
            CASE dbModule = "missing" ->
                    [response EXCEPT !.database = CROSS \o "Database module not found"]
              [] dbModule = "broken" ->
                    [response EXCEPT !.database = CROSS \o "Error: " \o cut]
              [] dbModule = "none" ->
                    [response EXCEPT !.database = WARN \o "Available but not initialized"]
              [] dbModule = "client" /\ listingFails ->
                    [response EXCEPT
                        !.database = WARN \o "Connected but Error: " \o cut,
                        !.connection_status = "Connected"]
              [] dbModule = "client" /\ ~listingFails ->
                    [response EXCEPT
                        !.collections = SubSeq(names, 1, Min(Len(names), CollectionLimit)),
                        !.database = CHECK \o "Connected & Working",
                        !.connection_status = "Connected"]
        final ==
            [probed EXCEPT
                !.database_url = IF "DATABASE_URL" \in env
                                 THEN CHECK \o "Set" ELSE CROSS \o "Not Set",
                !.database_name = IF "DATABASE_NAME" \in env
                                  THEN CHECK \o "Set" ELSE CROSS \o "Not Set"]
    IN  Result(Ok(final),
               IF dbModule = "client" THEN <<"list_collection_names">> ELSE <<>>,
               "none", <<>>)

\* names: what db.list_collection_names() returns; fault: the text of the
\* exception raised where one is raised; listingFails: whether the listing
\* raises; env: the environment variables that are set.
test_database(names, fault, listingFails, env) ==
    LET response ==
            [backend           |-> CHECK \o "Running",
             database          |-> CROSS \o "Not Available",
             database_url      |-> NoneVal,
             database_name     |-> NoneVal,
             connection_status |-> "Not Connected",
             collections       |-> <<>>]
        cut == SubSeq(fault, 1, Min(Len(fault), ErrTextLimit))
        probed ==
            CASE dbModule = "missing" ->
                    [response EXCEPT !.database = CROSS \o "Database module not found"]
              [] dbModule = "broken" ->
                    [response EXCEPT !.database = CROSS \o "Error: " \o cut]
              [] dbModule = "none" ->
                    [response EXCEPT !.database = WARN \o "Available but not initialized"]
              [] dbModule = "client" /\ listingFails ->
                    [response EXCEPT !.database = WARN \o "Connected but Error: " \o cut]
              [] dbModule = "client" /\ ~listingFails ->
                    [response EXCEPT
                        !.collections = SubSeq(names, 1, Min(Len(names), CollectionLimit)),
                        !.database = CHECK \o "Connected & Working",
                        !.connection_status = "Connected"]
        final ==
            [probed EXCEPT
                !.database_url = IF "DATABASE_URL" \in env
                                 THEN CHECK \o "Set" ELSE CROSS \o "Not Set",
                !.database_name = IF "DATABASE_NAME" \in env
                                  THEN CHECK \o "Set" ELSE CROSS \o "Not Set"]
    IN  Result(Ok(final),
               IF dbModule = "client" THEN <<"list_collection_names">> ELSE <<>>,
               "none", <<>>)

get_schema_overview ==
    Result(Ok([entities |->
        <<[name |-> "page",
           fields |-> <<"title", "slug", "status", "locale", "sections">>],
          [name |-> "section",
           fields |-> <<"type", "data", "position", "is_visible">>],
          [name |-> "product",
           fields |-> <<"name", "slug", "sku", "short_desc", "price", "currency",
                        "specs", "category", "model_3d_url", "images">>],
          [name |-> "lead",
           fields |-> <<"name", "email", "phone", "company", "message",
                        "product_slug", "source">>]>>]),
        <<>>, "none", <<>>)

(***************************************************************************)
(* Pages.                                                                  *)
(***************************************************************************)
default_homepage ==
    LET hero ==
            Section([type |-> "hero_spline",
                     position |-> 0,
                     data |-> [headline |-> "Engineered Excellence. Delivered Globally.",
                               subheadline |-> "A premium, cinematic 3D experience for a global technology group.",
                               cta |-> [label |-> "Explore Verticals", href |-> "#verticals"],
                               splineUrl |-> "https://prod.spline.design/EF7JOSsHLk16Tlw9/scene.splinecode"]])
        verticals ==
            Section([type |-> "feature_grid",
                     position |-> 1,
                     data |-> [id |-> "verticals",
                               title |-> "Business Verticals",
                               items |-> <<
                                 [title |-> "Payment Devices", subtitle |-> "POS, Tap & Pay, QR", icon |-> "CreditCard"],
                                 [title |-> "Smart Home & IoT", subtitle |-> "AI cameras, locks, sensors", icon |-> "Cpu"],
                                 [title |-> "Mobile Accessories", subtitle |-> "GaN chargers, power banks", icon |-> "BatteryCharging"],
                                 [title |-> "R&D & Manufacturing", subtitle |-> "Vertically integrated", icon |-> "Factory"]>>]])
    IN  Page([title |-> "Home", slug |-> "home", sections |-> <<hero, verticals>>])

\* The tail of get_page without the test for "home".
PageFallback_AnySlug(slug) == Ok(default_homepage)

\* The tail of get_page without the built-in homepage.
PageFallback_NoDefault(slug) == HTTPException(404, "Page not found")

\* The tail of get_page, reached whenever no stored document was returned.
PageFallback(slug) ==
    IF slug = "home"
    THEN Ok(default_homepage)
    ELSE HTTPException(404, "Page not found")

\* outcome: whether the storage query succeeds ("ok") or raises ("error").
get_page(slug, outcome) ==
    IF _db_available
    THEN IF outcome = "error"
         THEN Result(PageFallback(slug), <<"page.find_one">>, "error", <<>>)
         ELSE LET m == find_one(pages, slug)
              IN  IF m # <<>>
                  THEN LET doc == m[1]
                           secs == IF "sections" \in DOMAIN doc
                                   THEN doc.sections ELSE <<>>
                           norm == [i \in DOMAIN secs |->
                                       IF IsDict(secs[i])
                                       THEN Section(secs[i]) ELSE secs[i]]
                       IN  IF \A i \in DOMAIN secs :
                                  IsDict(secs[i]) => SectionValid(secs[i])
                           THEN Result(
                                  Ok([k \in DOMAIN doc \cup {"sections"} |->
                                        IF k = "sections" THEN norm ELSE doc[k]]),
                                  <<"page.find_one">>, "match", <<>>)
                           \* the validation error is caught by `except Exception`
                           ELSE Result(PageFallback(slug),
                                       <<"page.find_one">>, "match", <<>>)
                  ELSE Result(PageFallback(slug),
                              <<"page.find_one">>, "nomatch", <<>>)
    ELSE Result(PageFallback(slug), <<>>, "noclient", <<>>)

(***************************************************************************)
(* Products.                                                               *)
(***************************************************************************)
_default_products ==
    <<Product([name |-> "POS Pro X", slug |-> "pos-pro-x", sku |-> "POS-PRO-X",
               short_desc |-> "Rugged POS with NFC & printer", price |-> 399,
               category |-> "payment", images |-> <<"/images/pos-pro-x.jpg">>]),
      Product([name |-> "GaN Charger 30W", slug |-> "gan-30w", sku |-> "GAN-30W",
               short_desc |-> "Ultra-compact fast charger", price |-> 29,
               category |-> "accessories", images |-> <<"/images/gan-30w.jpg">>]),
      Product([name |-> "AI Camera S1", slug |-> "ai-cam-s1", sku |-> "AI-CAM-S1",
               short_desc |-> "Smart AI security camera", price |-> 99,
               category |-> "smarthome", images |-> <<"/images/ai-cam-s1.jpg">>])>>

\* list_products without the test `if items`.
list_products_NoEmptyCheck(outcome) ==
    LET defaults == Ok([items |-> _default_products])
    IN  IF _db_available
        THEN IF outcome = "error"
             THEN Result(defaults, <<"product.find">>, "error", <<>>)
             ELSE LET items == [i \in DOMAIN products |-> ProjectId(products[i])]
                  IN  Result(Ok([items |-> items]), <<"product.find">>,
                             IF items # <<>> THEN "match" ELSE "nomatch", <<>>)
        ELSE Result(defaults, <<>>, "noclient", <<>>)

list_products(outcome) ==
    LET defaults == Ok([items |-> _default_products])
    IN  IF _db_available
        THEN IF outcome = "error"
             THEN Result(defaults, <<"product.find">>, "error", <<>>)
             ELSE LET items == [i \in DOMAIN products |-> ProjectId(products[i])]
                  IN  IF items # <<>>
                      THEN Result(Ok([items |-> items]),
                                  <<"product.find">>, "match", <<>>)
                      ELSE Result(defaults, <<"product.find">>, "nomatch", <<>>)
        ELSE Result(defaults, <<>>, "noclient", <<>>)

\* The tail of get_product without the scan of the built-in list.
ProductFallback_NoScan(slug) == HTTPException(404, "Product not found")

\* The tail of get_product: the scan of the built-in list.
ProductFallback(slug) ==
    LET m == SelectSeq(_default_products, LAMBDA p : p.slug = slug)
    IN  IF m # <<>>
        THEN Ok(Head(m))
        ELSE HTTPException(404, "Product not found")

\* get_product without the `except Exception`: a storage error surfaces.
get_product_ErrorSurfaced(slug, outcome) ==
    IF _db_available
    THEN IF outcome = "error"
         THEN Result(HTTPException(500, "Internal Server Error"),
                     <<"product.find_one">>, "error", <<>>)
         ELSE LET m == find_one(products, slug)
              IN  IF m # <<>>
                  THEN Result(Ok(ProjectId(m[1])),
                              <<"product.find_one">>, "match", <<>>)
                  ELSE Result(ProductFallback(slug),
                              <<"product.find_one">>, "nomatch", <<>>)
    ELSE Result(ProductFallback(slug), <<>>, "noclient", <<>>)

get_product(slug, outcome) ==
    IF _db_available
    THEN IF outcome = "error"
         THEN Result(ProductFallback(slug), <<"product.find_one">>, "error", <<>>)
         ELSE LET m == find_one(products, slug)
              IN  IF m # <<>>
                  THEN Result(Ok(ProjectId(m[1])),
                              <<"product.find_one">>, "match", <<>>)
                  ELSE Result(ProductFallback(slug),
                              <<"product.find_one">>, "nomatch", <<>>)
    ELSE Result(ProductFallback(slug), <<>>, "noclient", <<>>)

(***************************************************************************)
(* Menus.                                                                  *)
(***************************************************************************)
get_main_menu ==
    Result(Ok([items |->
        <<[label |-> "Home", href |-> "/"],
          [label |-> "About", href |-> "/about"],
          [label |-> "Business Verticals", href |-> "/business-verticals"],
          [label |-> "Products", href |-> "/products"],
          [label |-> "Leadership", href |-> "/leadership"],
          [label |-> "Contact", href |-> "/contact"]>>]),
        <<>>, "none", <<>>)

(***************************************************************************)
(* Leads.                                                                  *)
(***************************************************************************)
\* create_document(collection, data) of the database module: one insert of
\* a copy of data into the collection; the caller's dict is left as it is.
create_document(data, outcome) ==
    [calls |-> <<"lead.insert_one">>,
     writes |-> IF outcome = "ok" THEN <<data>> ELSE <<>>]

\* create_lead without the `except Exception`: a failed write surfaces.
create_lead_NoCatch(lead, outcome) ==
    LET payload == Lead(lead)
        ack == Ok([status |-> "ok", message |-> "Lead received", lead |-> payload])
        failed == HTTPException(500, "Internal Server Error")
    IN  IF _db_available
        THEN IF outcome = "import_error"
             THEN Result(failed, <<>>, "error", <<>>)
             ELSE LET w == create_document(payload, outcome)
                  IN  Result(IF outcome = "ok" THEN ack ELSE failed, w.calls,
                             IF outcome = "ok" THEN "match" ELSE "error",
                             w.writes)
        ELSE Result(ack, <<>>, "noclient", <<>>)

\* create_lead trying the write a second time when the first one raises.
create_lead_Retry(lead, outcome) ==
    LET payload == Lead(lead)
        ack == Ok([status |-> "ok", message |-> "Lead received", lead |-> payload])
    IN  IF _db_available
        THEN IF outcome = "import_error"
             THEN Result(ack, <<>>, "error", <<>>)
             ELSE LET w == create_document(payload, outcome)
                      again == create_document(payload, outcome)
                  IN  IF outcome = "ok"
                      THEN Result(ack, w.calls, "match", w.writes)
                      ELSE Result(ack, w.calls \o again.calls, "error",
                                  w.writes \o again.writes)
        ELSE Result(ack, <<>>, "noclient", <<>>)

\* outcome: "ok", "import_error" (create_document cannot be imported) or
\* "write_error" (create_document raises).
create_lead(lead, outcome) ==
    LET payload == Lead(lead)
        ack == Ok([status |-> "ok", message |-> "Lead received", lead |-> payload])
    IN  IF _db_available
        THEN IF outcome = "import_error"
             THEN Result(ack, <<>>, "error", <<>>)
             ELSE LET w == create_document(payload, outcome)
                  IN  Result(ack, w.calls,
                             IF outcome = "ok" THEN "match" ELSE "error",
                             w.writes)
        ELSE Result(ack, <<>>, "noclient", <<>>)

(***************************************************************************)
(* The inputs of the requests and the documents the store may hold.        *)
(***************************************************************************)
PageSlugs == {"home", "about", "nope"}
ProductSlugs == {"gan-30w", "ai-cam-s1", "widget", "nope"}
Outcomes == {"ok", "error"}
WriteOutcomes == {"ok", "import_error", "write_error"}

\* A stored home page: one section with only a type and an unknown key, one
\* complete section.
StoredHome ==
    [_id |-> "65a1", title |-> "Stored Home", slug |-> "home",
     status |-> "draft", locale |-> "fr",
     sections |-> <<[type |-> "banner", css |-> "dark"],
                    [type |-> "text", data |-> [body |-> "hi"],
                     position |-> 5, is_visible |-> FALSE]>>]

\* A stored page without a sections field.
StoredBare ==
    [_id |-> "65a2", title |-> "Bare Home", slug |-> "home"]

\* A stored page with a list element that is not a dict.
StoredAbout ==
    [_id |-> "65a3", title |-> "About", slug |-> "about",
     sections |-> <<[raw |-> "plain text"],
                    [type |-> "text", position |-> 2]>>]

\* A stored page one of whose sections has no type.
StoredUntyped ==
    [_id |-> "65a4", title |-> "About us", slug |-> "about",
     sections |-> <<[type |-> "text"], [data |-> [body |-> "x"], position |-> 1]>>]

PageDocs == {StoredHome, StoredBare, StoredAbout, StoredUntyped}

StoredGan ==
    [_id |-> "77b1", name |-> "GaN Charger 30W v2", slug |-> "gan-30w",
     price |-> 25, currency |-> "EUR"]

StoredWidget ==
    [_id |-> "77b2", name |-> "Widget", slug |-> "widget",
     price |-> 5, currency |-> "USD"]

ProductDocs == {StoredGan, StoredWidget}

RawLeads ==
    {[name |-> "A", email |-> "a@b.com"],
     [name |-> "B", email |-> "b@c.com", source |-> "expo",
      product_slug |-> "gan-30w"],
     [name |-> "C"]}

Faults == {"timeout", Repeat("e", MaxErrLen)}
CollectionCounts == {0, 3, MaxCollections}
CollectionNames(n) == [i \in 1..n |-> Repeat("c", i)]
EnvNames == {"DATABASE_URL", "DATABASE_NAME"}

\* What the probe can meet: a listing that returns n names, or one that
\* raises with a text; the text is also that of a failing import.
ProbeInputs ==
    {[n |-> n, fault |-> "timeout", listingFails |-> FALSE] : n \in CollectionCounts}
        \cup {[n |-> 0, fault |-> f, listingFails |-> TRUE] : f \in Faults}

SeqsUpTo(S, n) == UNION {[1..k -> S] : k \in 0..n}

(***************************************************************************)
(* State machine.                                                          *)
(***************************************************************************)
Request(op, slug, arg, r) ==
    [op |-> op, slug |-> slug, arg |-> arg,
     class |-> r.class, resp |-> r.resp, calls |-> r.calls]

\* The monitor: the responses one (operation, slug) gave while storage was
\* absent, erroring or without a match, each with the situation it was given in.
Observe(op, slug, tag, value) ==
    IF obs.op = op /\ obs.slug = slug
    THEN [obs EXCEPT !.seen = @ \cup {<<tag, value>>}]
    ELSE [op |-> op, slug |-> slug, seen |-> {<<tag, value>>}]

ObserveRead(op, slug, r) ==
    IF r.class = "match" THEN obs ELSE Observe(op, slug, r.class, r.resp)

\* The effect of a handler on the store: the inserts it made.
Apply(r) ==
    /\ Len(leads) + Len(r.writes) <= MaxLeads
    /\ leads' = leads \o r.writes
    /\ UNCHANGED <<pages, products>>

Started == [op |-> "start", slug |-> "", arg |-> EmptyDict, class |-> "none",
            resp |-> Ok(EmptyDict), calls |-> <<>>]

Init ==
    /\ dbModule \in DbModules
    /\ pages \in SeqsUpTo(PageDocs, MaxPages)
    /\ products \in SeqsUpTo(ProductDocs, MaxProducts)
    /\ leads = <<>>
    /\ last = Started
    /\ obs = [op |-> "", slug |-> "", seen |-> {}]

\* The process is started (again), with whatever database module it finds.
Start ==
    /\ dbModule' \in DbModules
    /\ last' = Started
    /\ UNCHANGED <<pages, products, leads, obs>>

ReadRoot ==
    LET r == read_root
    IN  /\ last' = Request("read_root", "", EmptyDict, r)
        /\ Apply(r)
        /\ UNCHANGED <<dbModule, obs>>

\* The situation the probe meets.
ProbeMode(listingFails) ==
    IF dbModule = "client"
    THEN IF listingFails THEN "listing_error" ELSE "working"
    ELSE dbModule

TestDatabaseStep(n, fault, listingFails, env) ==
    LET r == test_database(CollectionNames(n), fault, listingFails, env)
    IN  /\ last' = Request("test_database", "",
                           [mode |-> ProbeMode(listingFails), stored |-> n], r)
        /\ Apply(r)
        /\ UNCHANGED dbModule

TestDatabase ==
    \E in \in ProbeInputs, env \in SUBSET EnvNames :
        /\ TestDatabaseStep(in.n, in.fault, in.listingFails, env)
        /\ UNCHANGED obs

GetSchemaOverview ==
    LET r == get_schema_overview
    IN  /\ last' = Request("get_schema_overview", "", EmptyDict, r)
        /\ Apply(r)
        /\ UNCHANGED <<dbModule, obs>>

GetPageStep(slug, outcome) ==
    LET r == get_page(slug, outcome)
    IN  /\ last' = Request("get_page", slug, EmptyDict, r)
        /\ Apply(r)
        /\ UNCHANGED dbModule

GetPage ==
    \E slug \in PageSlugs, outcome \in Outcomes :
        GetPageStep(slug, outcome) /\ UNCHANGED obs

ListProductsStep(outcome) ==
    LET r == list_products(outcome)
    IN  /\ last' = Request("list_products", "", EmptyDict, r)
        /\ Apply(r)
        /\ UNCHANGED dbModule

ListProducts ==
    \E outcome \in Outcomes :
        ListProductsStep(outcome) /\ UNCHANGED obs

GetProductStep(slug, outcome) ==
    LET r == get_product(slug, outcome)
    IN  /\ last' = Request("get_product", slug, EmptyDict, r)
        /\ Apply(r)
        /\ UNCHANGED dbModule

GetProduct ==
    \E slug \in ProductSlugs, outcome \in Outcomes :
        GetProductStep(slug, outcome) /\ UNCHANGED obs

GetMainMenu ==
    LET r == get_main_menu
    IN  /\ last' = Request("get_main_menu", "", EmptyDict, r)
        /\ Apply(r)
        /\ UNCHANGED <<dbModule, obs>>

\* A body without name or email is rejected by the validation of the Lead
\* parameter before the handler runs.
CreateLead ==
    \E lead \in RawLeads, outcome \in WriteOutcomes :
        LET r == IF LeadValid(lead)
                 THEN create_lead(lead, outcome)
                 ELSE Result(HTTPException(422, "Field required"),
                             <<>>, "none", <<>>)
        IN  /\ last' = Request("create_lead", "", lead, r)
            /\ Apply(r)
            /\ UNCHANGED <<dbModule, obs>>

Next ==
    \/ Start
    \/ ReadRoot
    \/ TestDatabase
    \/ GetSchemaOverview
    \/ GetPage
    \/ ListProducts
    \/ GetProduct
    \/ GetMainMenu
    \/ CreateLead

vars == <<dbModule, pages, products, leads, last, obs>>

Spec == Init /\ [][Next]_vars

(***************************************************************************)
(* The same requests with the monitor switched on.  SpecUniform runs the   *)
(* three storage-backed reads, SpecProbe the diagnostic probe.             *)
(***************************************************************************)
ObservedGetPage ==
    \E slug \in PageSlugs, outcome \in Outcomes :
        /\ GetPageStep(slug, outcome)
        /\ obs' = ObserveRead("get_page", slug, get_page(slug, outcome))

ObservedListProducts ==
    \E outcome \in Outcomes :
        /\ ListProductsStep(outcome)
        /\ obs' = ObserveRead("list_products", "", list_products(outcome))

ObservedGetProduct ==
    \E slug \in ProductSlugs, outcome \in Outcomes :
        /\ GetProductStep(slug, outcome)
        /\ obs' = ObserveRead("get_product", slug, get_product(slug, outcome))

NextUniform ==
    \/ Start
    \/ ObservedGetPage
    \/ ObservedListProducts
    \/ ObservedGetProduct

SpecUniform == Init /\ [][NextUniform]_vars

ObservedTestDatabase ==
    \E in \in ProbeInputs, env \in SUBSET EnvNames :
        /\ TestDatabaseStep(in.n, in.fault, in.listingFails, env)
        /\ obs' = Observe("test_database", "", ProbeMode(in.listingFails),
                          test_database(CollectionNames(in.n), in.fault,
                                        in.listingFails, env).resp.body.database)

NextProbe ==
    \/ Start
    \/ ObservedTestDatabase

\* The probe reads neither collection, so its runs start from an empty store.
InitProbe == Init /\ pages = <<>> /\ products = <<>>

SpecProbe == InitProbe /\ [][NextProbe]_vars

(***************************************************************************)
(* Properties.                                                             *)
(***************************************************************************)
\* The request handled last met no stored document: storage absent, the
\* query raising, or the query succeeding without a match.
NoDocument == last.class \in {"noclient", "error", "nomatch"}

BuiltinProductSlugs == {"pos-pro-x", "gan-30w", "ai-cam-s1"}

\* C1 (as stated): whenever get_product meets no stored product with the
\* requested slug, the request fails with 404; no built-in product is served.
C1_NoBuiltinProduct ==
    (last.op = "get_product" /\ NoDocument) => last.resp.status = 404

\* C1 (amended): whenever get_product meets no stored product with the
\* requested slug, it returns the built-in product of that slug if the slug
\* is one of the three built-in ones, and fails with 404 "Product not found"
\* otherwise.
C1_NotFoundUnlessBuiltin ==
    (last.op = "get_product" /\ NoDocument) =>
        IF last.slug \in BuiltinProductSlugs
        THEN /\ last.resp.status = 200
             /\ last.resp.body.slug = last.slug
             /\ "_id" \notin DOMAIN last.resp.body
             /\ last.resp.body.sku \in {"POS-PRO-X", "GAN-30W", "AI-CAM-S1"}
        ELSE last.resp = [status |-> 404, body |-> [detail |-> "Product not found"]]

C1_Witness ==
    /\ last.op = "get_product"
    /\ last.class = "nomatch"
    /\ last.slug = "ai-cam-s1"
    /\ last.resp.status = 200

\* C2: get_page for a slug other than "home" that meets no stored page fails
\* with 404 "Page not found" and never serves the built-in homepage.
C2_PageNotFound ==
    (last.op = "get_page" /\ last.slug # "home" /\ NoDocument) =>
        last.resp = [status |-> 404, body |-> [detail |-> "Page not found"]]

C2_Witness ==
    /\ last.op = "get_page"
    /\ last.slug = "about"
    /\ last.class = "error"
    /\ last.resp.status = 404

\* C3: get_page for "home" that meets no stored home page returns the
\* built-in page: slug "home" and exactly two sections, hero_spline at
\* position 0 then feature_grid at position 1; never 404.
C3_BuiltinHomepage ==
    (last.op = "get_page" /\ last.slug = "home" /\ NoDocument) =>
        /\ last.resp.status = 200
        /\ last.resp.body.slug = "home"
        /\ Len(last.resp.body.sections) = 2
        /\ last.resp.body.sections[1].type = "hero_spline"
        /\ last.resp.body.sections[1].position = 0
        /\ last.resp.body.sections[2].type = "feature_grid"
        /\ last.resp.body.sections[2].position = 1

C3_Witness ==
    /\ last.op = "get_page"
    /\ last.slug = "home"
    /\ last.class = "nomatch"
    /\ last.resp.status = 200
    /\ Len(last.resp.body.sections) = 2

\* C4: list_products always answers 200 with a non-empty item list: the
\* three built-in products in order when storage is absent, erroring or
\* empty, and the stored documents only when the query returned some.
C4_NeverEmptyCatalog ==
    last.op = "list_products" =>
        /\ last.resp.status = 200
        /\ last.resp.body.items # <<>>
        /\ (NoDocument \/ products = <<>>) =>
              /\ Len(last.resp.body.items) = 3
              /\ [i \in 1..3 |-> last.resp.body.items[i].slug]
                     = <<"pos-pro-x", "gan-30w", "ai-cam-s1">>
        /\ ~NoDocument =>
              /\ products # <<>>
              /\ Len(last.resp.body.items) = Len(products)
              /\ \A i \in DOMAIN products :
                    /\ last.resp.body.items[i].slug = products[i].slug
                    /\ last.resp.body.items[i].name = products[i].name

C4_Witness ==
    /\ last.op = "list_products"
    /\ last.class = "nomatch"
    /\ Len(last.resp.body.items) = 3

LeadFields ==
    {"name", "email", "phone", "company", "message", "product_slug", "source"}

\* C5: create_lead with a lead that has name and email answers 200 with
\* status "ok" and the lead echoed with its defaults filled (source
\* "website"), whatever became of the write.
C5_LeadAlwaysAcknowledged ==
    (last.op = "create_lead" /\ {"name", "email"} \subseteq DOMAIN last.arg) =>
        /\ last.resp.status = 200
        /\ last.resp.body.status = "ok"
        /\ DOMAIN last.resp.body.lead = LeadFields
        /\ \A k \in LeadFields :
              last.resp.body.lead[k] =
                  IF k \in DOMAIN last.arg THEN last.arg[k]
                  ELSE IF k = "source" THEN "website" ELSE NoneVal

C5_Witness ==
    /\ last.op = "create_lead"
    /\ last.class = "error"
    /\ last.calls = <<"lead.insert_one">>
    /\ "source" \notin DOMAIN last.arg
    /\ last.resp.body.lead.source = "website"

ReadClasses == {"noclient", "error", "nomatch"}

\* C6: for each storage-backed read and each slug, the responses given with
\* no storage client, with the query raising and with no matching document
\* are all the same response.
C6_UniformCoercion ==
    obs.op \in {"get_page", "get_product", "list_products"} =>
        \A e1, e2 \in obs.seen : e1[2] = e2[2]

C6_Witness ==
    /\ obs.op = "get_product"
    /\ obs.slug = "nope"
    /\ {e[1] : e \in obs.seen} = ReadClasses

\* C7: get_product for "gan-30w" with no storage returns the product with
\* slug gan-30w, price 29 and currency USD.
C7_GanCharger ==
    (last.op = "get_product" /\ last.slug = "gan-30w" /\ last.class = "noclient") =>
        /\ last.resp.status = 200
        /\ last.resp.body.slug = "gan-30w"
        /\ last.resp.body.price = 29
        /\ last.resp.body.currency = "USD"

C7_Witness ==
    /\ last.op = "get_product"
    /\ last.slug = "gan-30w"
    /\ last.class = "noclient"
    /\ last.resp.status = 200

ProbeModes == {"missing", "none", "listing_error", "working"}

\* C8: test_database always answers with a report; the situations module
\* absent, db None, listing error and working give pairwise different
\* "database" strings; at most 10 collections are listed; connection_status
\* is "Connected" only when the listing succeeded.
C8_ProbeReport ==
    /\ last.op = "test_database" =>
          /\ last.resp.status = 200
          /\ Len(last.resp.body.collections) <= 10
          /\ Len(last.resp.body.collections) <= last.arg.stored
          /\ last.resp.body.connection_status = "Connected"
                => last.arg.mode = "working"
    /\ obs.op = "test_database" =>
          \A e1, e2 \in obs.seen :
              (e1[1] \in ProbeModes /\ e2[1] \in ProbeModes /\ e1[1] # e2[1])
                  => e1[2] # e2[2]

C8_Witness ==
    /\ last.op = "test_database"
    /\ last.arg.mode = "working"
    /\ last.arg.stored > 10
    /\ Len(last.resp.body.collections) = 10
    /\ obs.op = "test_database"
    /\ ProbeModes \subseteq {e[1] : e \in obs.seen}

ReadOps ==
    {"get_page", "get_product", "list_products", "get_main_menu", "read_root",
     "get_schema_overview"}

\* C9: a read request leaves the collections as they are and issues at most
\* one storage call, none of them a write; only create_lead changes the
\* store, by at most one insert into the lead collection, and it issues no
\* other storage call.
C9_Frame ==
    [][ /\ pages' = pages
        /\ products' = products
        /\ leads' # leads => last'.op = "create_lead"
        /\ last'.op \in ReadOps =>
              /\ leads' = leads
              /\ Len(last'.calls) <= 1
              /\ \A i \in DOMAIN last'.calls :
                    last'.calls[i] \in {"page.find_one", "product.find",
                                        "product.find_one"}
        /\ last'.op = "create_lead" =>
              /\ last'.calls \in {<<>>, <<"lead.insert_one">>}
              /\ \/ leads' = leads
                 \/ /\ last'.calls = <<"lead.insert_one">>
                    /\ leads' = Append(leads, last'.resp.body.lead)
      ]_vars

C9_Witness ==
    /\ last.op = "create_lead"
    /\ last.calls = <<"lead.insert_one">>
    /\ last.class = "match"
    /\ Len(leads) = 1

\* C10: whenever the query of get_page finds a stored page with the requested
\* slug, the response is that document, with its sections in stored order
\* and every dict section filled with the defaults of data, position and
\* is_visible; it is neither the built-in homepage nor a 404.
C10_StoredPageReturned ==
    (last.op = "get_page" /\ last.class = "match") =>
        LET doc == find_one(pages, last.slug)[1]
            secs == IF "sections" \in DOMAIN doc THEN doc.sections ELSE <<>>
        IN  /\ last.resp.status = 200
            /\ last.resp.body.title = doc.title
            /\ last.resp.body.slug = last.slug
            /\ Len(last.resp.body.sections) = Len(secs)
            /\ \A i \in DOMAIN secs :
                  ("type" \in DOMAIN secs[i]) =>
                      /\ last.resp.body.sections[i].type = secs[i].type
                      /\ DOMAIN last.resp.body.sections[i]
                             = {"type", "data", "position", "is_visible"}

====
